---- MODULE Spec2Model ----
(***************************************************************************)
(* Model of the quiz-history persistence layer of GradeSchoolMathSolver:   *)
(* QuizHistoryService (services/quiz_history/service.py) on top of the     *)
(* EmbeddingService (services/embedding/service.py) and the backend        *)
(* collection API (create_collection, insert_record, search_records,       *)
(* is_connected).                                                          *)
(***************************************************************************)
EXTENDS Integers, Sequences, FiniteSets, TLC

(***************************************************************************)
(* Bounds of the model.                                                    *)
(***************************************************************************)
\* calls started in one behaviour
MaxCalls == 2
\* dimension of the vectors the endpoint's model produces
EmbeddingDim == 1

\* the threads that call one service instance concurrently
Callers == {"t1", "t2"}

(***************************************************************************)
(* Configuration values and names.                                         *)
(***************************************************************************)
MARIADB == "mariadb"
ELASTICSEARCH == "elasticsearch"
Backends == {MARIADB, ELASTICSEARCH}

\* self.index_name = self.config.ELASTICSEARCH_INDEX
INDEX_NAME == "quiz_history"

\* name of a collection: the main collection, or the companion table of an
\* embedding column (get_embedding_table_name(index_name, embedding_col))
MainCollection == [index |-> INDEX_NAME, col |-> ""]
get_embedding_table_name(index, embedding_col) ==
    [index |-> index, col |-> embedding_col]

\* get_embedding_source_mapping(): ordered pairs source column ->
\* embedding column, from EMBEDDING_SOURCE_COLUMNS / EMBEDDING_COLUMN_NAMES
Pair(s, e) == [source |-> s, embedding |-> e]
QPair == Pair("question", "question_embedding")
EPair == Pair("equation", "equation_embedding")
CPair == Pair("category", "category_embedding")
DefaultMapping == <<QPair, EPair>>
Mappings == { DefaultMapping, <<EPair, QPair>>, <<EPair>>, <<QPair, CPair>> }

EmbeddingColumns(m) == { m[i].embedding : i \in 1..Len(m) }

(***************************************************************************)
(* Texts.  A text is a string; Strip is str.strip() on the texts used.     *)
(***************************************************************************)
Q1 == "What is 5 + 3?"
Q2 == "What is 9 - 4?"
E1 == "5 + 3"
E2 == "9 - 4"
BLANK == "   "

\* text used as it is, without strip()
StripNothing(text) == text

Strip(text) == IF text \in {"", " ", BLANK} THEN "" ELSE text
\* Python truthiness of a str
Truthy(text) == text # ""

(***************************************************************************)
(* QuizHistory records handed to add_history.                              *)
(***************************************************************************)
QuizHistory(u, q, e, ua, ca, cat, t, rv) ==
    [username |-> u, question |-> q, user_equation |-> e,
     user_answer |-> ua, correct_answer |-> ca, is_correct |-> (ua = ca),
     category |-> cat, timestamp |-> t, reviewed |-> rv]

Histories ==
    { QuizHistory("alice", Q1, E1, 8, 8, "addition", 1, FALSE),
      QuizHistory("alice", Q1, E1, 7, 8, "addition", 2, TRUE),
      QuizHistory("bob", Q2, E2, 5, 5, "subtraction", 1, FALSE),
      QuizHistory("bob", "", E2, 5, 5, "subtraction", 2, FALSE),
      QuizHistory("bob", Q2, "", 4, 5, "subtraction", 2, FALSE),
      QuizHistory("alice", BLANK, E1, 8, 8, "addition", 3, FALSE) }

\* datetime.isoformat(): the instant as ISO-8601 text
isoformat(t) == [iso |-> t]

(***************************************************************************)
(* EmbeddingService.generate_embedding                                     *)
(***************************************************************************)
None == [some |-> FALSE, v |-> <<>>]
Some(vec) == [some |-> TRUE, v |-> vec]
Vec(n) == [k \in 1..n |-> k]

\* what requests.post(...) and response.json() can produce
Item(has, emb) == [hasEmbedding |-> has, embedding |-> emb]
Http(status, parses, hasData, data) ==
    [kind |-> "http", status |-> status, parses |-> parses,
     hasData |-> hasData, data |-> data]
Responses ==
    { [kind |-> "timeout", status |-> 0, parses |-> FALSE,
       hasData |-> FALSE, data |-> <<>>],
      [kind |-> "connection_error", status |-> 0, parses |-> FALSE,
       hasData |-> FALSE, data |-> <<>>],
      Http(500, TRUE, FALSE, <<>>),
      Http(200, FALSE, FALSE, <<>>),
      Http(200, TRUE, FALSE, <<>>),
      Http(200, TRUE, TRUE, <<>>),
      Http(200, TRUE, TRUE, <<Item(FALSE, <<>>)>>),
      Http(200, TRUE, TRUE, <<Item(TRUE, <<>>)>>) }
    \cup { Http(200, TRUE, TRUE, <<Item(TRUE, Vec(EmbeddingDim))>>) }

\* a 200 response with a parsable body and data whose first item carries
\* no embedding or an empty one
EmptyEmbedding(resp) ==
    /\ resp.kind = "http"
    /\ resp.status = 200
    /\ resp.parses
    /\ resp.hasData
    /\ Len(resp.data) > 0
    /\ ~resp.data[1].hasEmbedding \/ Len(resp.data[1].embedding) = 0

\* whether generate_embedding sends a request for this text
SendsRequest(en, text) == en /\ Truthy(text) /\ Truthy(Strip(text))

\* generate_embedding without the check of self.enabled
generate_embedding_always_enabled(en, text, resp) ==
    IF ~Truthy(text) \/ ~Truthy(Strip(text)) THEN None
    ELSE IF resp.kind # "http" THEN None
    ELSE IF resp.status # 200 THEN None
    ELSE IF ~resp.parses THEN None
    ELSE LET data == IF resp.hasData THEN resp.data ELSE <<>>
         IN IF Len(data) = 0 THEN None
            ELSE LET embedding == IF data[1].hasEmbedding
                                  THEN data[1].embedding ELSE <<>>
                 IN IF Len(embedding) > 0 THEN Some(embedding) ELSE None

\* generate_embedding without the check `if embedding:`
generate_embedding_unchecked(en, text, resp) ==
    IF ~en THEN None
    ELSE IF ~Truthy(text) \/ ~Truthy(Strip(text)) THEN None
    ELSE IF resp.kind # "http" THEN None
    ELSE IF resp.status # 200 THEN None
    ELSE IF ~resp.parses THEN None
    ELSE LET data == IF resp.hasData THEN resp.data ELSE <<>>
         IN IF Len(data) = 0 THEN None
            ELSE Some(IF data[1].hasEmbedding
                      THEN data[1].embedding ELSE <<>>)

\* generate_embedding without the check of response.status_code
generate_embedding_any_status(en, text, resp) ==
    IF ~en THEN None
    ELSE IF ~Truthy(text) \/ ~Truthy(Strip(text)) THEN None
    ELSE IF resp.kind # "http" THEN None
    ELSE IF ~resp.parses THEN None
    ELSE LET data == IF resp.hasData THEN resp.data ELSE <<>>
         IN IF Len(data) = 0 THEN None
            ELSE LET embedding == IF data[1].hasEmbedding
                                  THEN data[1].embedding ELSE <<>>
                 IN IF Len(embedding) > 0 THEN Some(embedding) ELSE None

generate_embedding(en, text, resp) ==
    IF ~en THEN None
    ELSE IF ~Truthy(text) \/ ~Truthy(Strip(text)) THEN None
    ELSE IF resp.kind # "http" THEN None
    ELSE IF resp.status # 200 THEN None
    ELSE IF ~resp.parses THEN None
    ELSE LET data == IF resp.hasData THEN resp.data ELSE <<>>
         IN IF Len(data) = 0 THEN None
            ELSE LET embedding == IF data[1].hasEmbedding
                                  THEN data[1].embedding ELSE <<>>
                 IN IF Len(embedding) > 0 THEN Some(embedding) ELSE None

(***************************************************************************)
(* EmbeddingService.generate_embeddings, get_embedding_dimension           *)
(***************************************************************************)
\* the text of the probe of get_embedding_dimension
TEST == "test"

\* the texts and the lists of texts the service is called with
ClientTexts == {"", BLANK, Q1, TEST}
Batches == { <<>>, <<Q1>>, <<Q1, Q2>> }

\* what the endpoint can answer to a request made on the service: also an
\* error status with a body, a vector of another length, and several items
ClientResponses ==
    Responses \cup
    { Http(500, TRUE, TRUE, <<Item(TRUE, Vec(EmbeddingDim))>>),
      Http(200, TRUE, TRUE, <<Item(TRUE, Vec(EmbeddingDim + 1))>>),
      Http(200, TRUE, TRUE, <<Item(TRUE, Vec(EmbeddingDim)),
                              Item(TRUE, Vec(EmbeddingDim))>>),
      Http(200, TRUE, TRUE, <<Item(TRUE, Vec(EmbeddingDim)),
                              Item(TRUE, <<>>)>>) }

\* whether generate_embeddings sends a request for these texts
SendsBatchRequest(en, texts) == en /\ Len(texts) > 0

generate_embeddings(en, texts, resp) ==
    IF ~en THEN None
    ELSE IF Len(texts) = 0 THEN None
    ELSE IF resp.kind # "http" THEN None
    ELSE IF resp.status # 200 THEN None
    ELSE IF ~resp.parses THEN None
    ELSE LET data == IF resp.hasData THEN resp.data ELSE <<>>
         IN IF Len(data) = 0 THEN None
            ELSE LET embeddings ==
                         [k \in 1..Len(data) |->
                            IF data[k].hasEmbedding
                            THEN data[k].embedding ELSE <<>>]
                 IN IF \A k \in 1..Len(embeddings) : Len(embeddings[k]) > 0
                    THEN Some(embeddings) ELSE None

\* get_embedding_dimension reporting one more than the length
get_embedding_dimension_off_by_one(en, resp) ==
    LET test_embedding == generate_embedding(en, TEST, resp)
    IN IF test_embedding.some THEN Len(test_embedding.v) + 1 ELSE 0

\* get_embedding_dimension; 0 stands for None
get_embedding_dimension(en, resp) ==
    LET test_embedding == generate_embedding(en, TEST, resp)
    IN IF test_embedding.some THEN Len(test_embedding.v) ELSE 0

\* is_available taking an enabled service for an available one
is_available_when_enabled(en, resp) == en

\* is_available: the probe embedding is not None
is_available(en, resp) ==
    IF ~en THEN FALSE
    ELSE generate_embedding(en, TEST, resp).some

(***************************************************************************)
(* QuizHistoryService helpers                                              *)
(***************************************************************************)

\* the emptiness check of the source text is left out
NeverMissing(source_text) == FALSE

\* if not source_text
SourceMissing(source_text) == ~Truthy(source_text)

\* the None check of the main insert is left out
NeverNone(id) == FALSE

\* if doc_id is None: return False, after the main insert of the mariadb
\* branch
IsNone(id) == id = 0

\* the loop ends after its first column
AfterFirstEmbedding(i, m) == "insert_main"

\* where the loop of _generate_embeddings goes after column i of mapping m
AfterEmbedding(i, m) == IF i = Len(m) THEN "insert_main" ELSE "embed"

\* source_values.get(source_col, '') in _generate_embeddings
\* the source text looked up among all fields of the record
source_values_any_field(history, source_col) ==
    IF source_col = "question" THEN history.question
    ELSE IF source_col = "equation" THEN history.user_equation
    ELSE IF source_col = "category" THEN history.category
    ELSE ""

source_values(history, source_col) ==
    IF source_col = "question" THEN history.question
    ELSE IF source_col = "equation" THEN history.user_equation
    ELSE ""

\* the base document with equation taken from the question
BaseDocQuestionAsEquation(history) ==
    [username |-> history.username,
     question |-> history.question,
     equation |-> history.question,
     user_equation |-> history.user_equation,
     user_answer |-> history.user_answer,
     correct_answer |-> history.correct_answer,
     is_correct |-> history.is_correct,
     category |-> history.category,
     timestamp |-> isoformat(history.timestamp),
     reviewed |-> FALSE,
     embeddings |-> {}]

\* the base document of add_history
BaseDoc(history) ==
    [username |-> history.username,
     question |-> history.question,
     equation |-> history.user_equation,
     user_equation |-> history.user_equation,
     user_answer |-> history.user_answer,
     correct_answer |-> history.correct_answer,
     is_correct |-> history.is_correct,
     category |-> history.category,
     timestamp |-> isoformat(history.timestamp),
     reviewed |-> FALSE,
     embeddings |-> {}]

\* the embeddings are not merged into the document
UpdateNothing(doc, embs) == doc

\* doc.update(embeddings)
Update(doc, embs) ==
    [doc EXCEPT !.embeddings =
        { [col |-> embs[k].col, vec |-> embs[k].vec] : k \in 1..Len(embs) }]

\* embeddings[embedding_col] = embedding on the ordered dict
DictSet(embs, col, vec) ==
    IF \E k \in 1..Len(embs) : embs[k].col = col
    THEN [k \in 1..Len(embs) |->
            IF embs[k].col = col THEN [col |-> col, vec |-> vec] ELSE embs[k]]
    ELSE Append(embs, [col |-> col, vec |-> vec])

(***************************************************************************)
(* State                                                                   *)
(***************************************************************************)
VARIABLES
    backend,            \* config.DATABASE_BACKEND
    mapping,            \* self.source_to_embedding_map
    enabled,            \* config.EMBEDDING_SERVICE_ENABLED
    phase,              \* position of __init__ / _create_index
    created,            \* collections passed to create_collection, in order
    embedding_service,  \* self.embedding_service: 0 is None, else instance
    constructed,        \* EmbeddingService instances constructed so far
    main,               \* rows of the main collection
    companion,          \* rows of the companion embedding tables
    lastId,             \* last id the backend issued for a main row
    lastRow,            \* last id the backend issued for a companion row
    calls,              \* calls started so far
    pc,                 \* position of each caller
    history,            \* add_history argument of each caller
    query,              \* search / get arguments of each caller
    idx,                \* loop position of each caller
    svc,                \* embedding service handle each caller obtained
    embeddings,         \* embeddings dict of each caller
    doc_id,             \* doc_id of each caller, 0 is None
    res,                \* what the call returned
    op,                 \* the operation each caller is in
    log,                \* backend and client calls made by the current call
    added,              \* the add_history calls that returned True
    probes,             \* what is_connected() answered, call after call
    client,             \* the latest call made on an EmbeddingService
    earlier             \* the calls made on it before, and their results

config == <<backend, mapping, enabled>>
store == <<main, companion, lastId, lastRow>>
locals == <<op, history, query, idx, svc, embeddings, doc_id>>
direct == <<client, earlier>>
vars == <<backend, mapping, enabled, phase, created, embedding_service,
          constructed, main, companion, lastId, lastRow, calls, pc, history,
          query, idx, svc, embeddings, doc_id, res, op, log, added, probes,
          client, earlier>>

\* the probe's answer is not looked at
NeverDisconnected(up) == FALSE

\* a connection state kept between calls: once the probe has answered
\* disconnected, the later calls take the backend for disconnected
DisconnectedSticky(up) == ~up \/ \E k \in 1..Len(probes) : ~probes[k]

\* if not self.db.is_connected()
Disconnected(up) == ~up

\* no call was made on an EmbeddingService yet
NoCall == [fn |-> "", texts |-> <<>>, resp |-> Http(0, FALSE, FALSE, <<>>),
           some |-> FALSE, out |-> <<>>, outs |-> <<>>, dim |-> 0,
           request |-> FALSE]

NoHistory == QuizHistory("", "", "", 0, 0, "", 0, FALSE)
NoQuery == [username |-> "", question |-> "", category |-> "", n |-> 0]
Pending == [kind |-> "pending", ok |-> FALSE, reason |-> "", list |-> <<>>]
Bool(b, why) == [kind |-> "bool", ok |-> b, reason |-> why, list |-> <<>>]
List(l) == [kind |-> "list", ok |-> TRUE, reason |-> "", list |-> l]

\* no collection: the call is not about one
NoColl == [index |-> "", col |-> ""]

\* an entry of the log: the function called, the collection it was called
\* on, its outcome, the limit passed to search_records, whether an HTTP
\* request was sent, the embedding columns of an inserted document, and
\* whether the endpoint's answer carried an empty embedding
Entry(fn, coll, out) ==
    [fn |-> fn, coll |-> coll, out |-> out, limit |-> 0, request |-> FALSE,
     cols |-> {}, empty |-> FALSE]
ProbeEntry(up) == Entry("is_connected", NoColl, IF up THEN "up" ELSE "down")
EmbeddingEntry(embedding, request) ==
    [Entry("generate_embedding", NoColl,
           IF embedding.some THEN "vector" ELSE "none")
        EXCEPT !.request = request]
InsertEntry(coll, out, doc) ==
    [Entry("insert_record", coll, out)
        EXCEPT !.cols = { e.col : e \in doc.embeddings }]
SearchEntry(out, limit) ==
    [Entry("search_records", MainCollection, out) EXCEPT !.limit = limit]

Init ==
    /\ backend \in Backends
    /\ mapping \in Mappings
    /\ enabled \in BOOLEAN
    /\ phase = "create_main"
    /\ created = <<>>
    /\ embedding_service = 0
    /\ constructed = 0
    /\ main = {}
    /\ companion = {}
    /\ lastId = 0
    /\ lastRow = 0
    /\ calls = 0
    /\ pc = [c \in Callers |-> "idle"]
    /\ history = [c \in Callers |-> NoHistory]
    /\ query = [c \in Callers |-> NoQuery]
    /\ idx = [c \in Callers |-> 0]
    /\ svc = [c \in Callers |-> 0]
    /\ embeddings = [c \in Callers |-> <<>>]
    /\ doc_id = [c \in Callers |-> 0]
    /\ res = [c \in Callers |-> Pending]
    /\ op = [c \in Callers |-> ""]
    /\ log = [c \in Callers |-> <<>>]
    /\ added = {}
    /\ probes = <<>>
    /\ client = NoCall
    /\ earlier = {}

(***************************************************************************)
(* QuizHistoryService.__init__ and _create_index                           *)
(***************************************************************************)
\* a create_collection call and whether it returned: the backend reports a
\* failure by raising
Creation(coll, ok) == [coll |-> coll, ok |-> ok]

\* _create_index with the error of create_collection caught and dropped
AfterCreateSwallowed(ok, next) == next

\* _create_index has no try: an error of create_collection ends it, and
\* with it __init__, which passes the error on to its caller
AfterCreate(ok, next) == IF ~ok THEN "failed" ELSE next

\* the embedding tables created whatever the backend is
SplitTableAlways(b) == TRUE

\* if self.config.DATABASE_BACKEND == 'mariadb'
SplitTable(b) == b = MARIADB

\* self.db.create_collection(self.index_name, schema)
CreateMainCollection ==
    /\ phase = "create_main"
    /\ \E ok \in BOOLEAN :
         /\ created' = Append(created, Creation(MainCollection, ok))
         /\ phase' = AfterCreate(ok, IF SplitTable(backend)
                                     THEN "create_tables" ELSE "ready")
    /\ UNCHANGED <<config, direct, probes, embedding_service, constructed, store, calls, pc,
                   locals, res, log, added>>

\* for table_name, table_schema in embedding_tables.items():
\*     self.db.create_collection(table_name, table_schema)
CreateEmbeddingTable ==
    /\ phase = "create_tables"
    /\ LET k == Len(created)
           table_name == get_embedding_table_name(INDEX_NAME,
                                                  mapping[k].embedding)
       IN \E ok \in BOOLEAN :
            /\ created' = Append(created, Creation(table_name, ok))
            /\ phase' = AfterCreate(ok, IF k = Len(mapping)
                                        THEN "ready" ELSE "create_tables")
    /\ UNCHANGED <<config, direct, probes, embedding_service, constructed, store, calls, pc,
                   locals, res, log, added>>

(***************************************************************************)
(* Start and end of a call: a thread starts a call when it is idle or has  *)
(* taken the result of its previous call                                   *)
(***************************************************************************)
Start(c, name, first, h, q) ==
    /\ phase = "ready"
    /\ pc[c] \in {"idle", "done"}
    /\ calls < MaxCalls
    /\ calls' = calls + 1
    /\ pc' = [pc EXCEPT ![c] = first]
    /\ op' = [op EXCEPT ![c] = name]
    /\ history' = [history EXCEPT ![c] = h]
    /\ query' = [query EXCEPT ![c] = q]
    /\ idx' = [idx EXCEPT ![c] = 1]
    /\ svc' = [svc EXCEPT ![c] = 0]
    /\ embeddings' = [embeddings EXCEPT ![c] = <<>>]
    /\ doc_id' = [doc_id EXCEPT ![c] = 0]
    /\ res' = [res EXCEPT ![c] = Pending]
    /\ log' = [log EXCEPT ![c] = <<>>]
    /\ UNCHANGED <<config, direct, probes, phase, created, embedding_service, constructed,
                   store, added>>

\* the call returns r to its caller
Finish(c, r) ==
    /\ pc' = [pc EXCEPT ![c] = "done"]
    /\ res' = [res EXCEPT ![c] = r]

\* add_history ending with return True whatever doc_id is
FinishAddTrue(c, id) ==
    /\ Finish(c, Bool(TRUE, ""))
    /\ added' = added \cup {[id |-> id, history |-> history[c]]}

\* add_history returns doc_id is not None
FinishAdd(c, id) ==
    /\ Finish(c, Bool(id # 0, IF id # 0 THEN "" ELSE "StorageError"))
    /\ added' = IF id # 0
                THEN added \cup {[id |-> id, history |-> history[c]]}
                ELSE added

Logged(c, e) == log' = [log EXCEPT ![c] = Append(log[c], e)]

(***************************************************************************)
(* add_history                                                             *)
(***************************************************************************)
CallAddHistory(c) ==
    \E h \in Histories : Start(c, "add_history", "add_probe", h, NoQuery)

\* if not self.db.is_connected(): return False
AddProbe(c) ==
    /\ pc[c] = "add_probe"
    /\ \E up \in BOOLEAN :
         /\ Logged(c, ProbeEntry(up))
         /\ probes' = Append(probes, up)
         /\ IF Disconnected(up)
            THEN Finish(c, Bool(FALSE, "NotConnected"))
            ELSE /\ pc' = [pc EXCEPT ![c] = "svc_check"]
                 /\ UNCHANGED res
    /\ UNCHANGED <<config, direct, phase, created, embedding_service, constructed,
                   store, calls, locals, added>>

\* _get_embedding_service: if self.embedding_service is None
GetEmbeddingServiceCheck(c) ==
    /\ pc[c] = "svc_check"
    /\ pc' = [pc EXCEPT ![c] =
                IF embedding_service = 0 THEN "svc_new" ELSE "svc_return"]
    /\ UNCHANGED <<config, direct, probes, phase, created, embedding_service, constructed,
                   store, calls, locals, res, log, added>>

\* self.embedding_service = EmbeddingService(), or the except branch:
\* _get_embedding_service returns None and _generate_embeddings raises
GetEmbeddingServiceNew(c) ==
    /\ pc[c] = "svc_new"
    /\ \E ok \in BOOLEAN :
         IF ok
         THEN /\ constructed' = constructed + 1
              /\ embedding_service' = constructed + 1
              /\ pc' = [pc EXCEPT ![c] = "svc_return"]
              /\ UNCHANGED res
         ELSE /\ Finish(c, Bool(FALSE, "EmbeddingUnavailable"))
              /\ UNCHANGED <<embedding_service, constructed>>
    /\ UNCHANGED <<config, direct, probes, phase, created, store, calls, locals, log, added>>

\* return self.embedding_service
GetEmbeddingServiceReturn(c) ==
    /\ pc[c] = "svc_return"
    /\ svc' = [svc EXCEPT ![c] = embedding_service]
    /\ pc' = [pc EXCEPT ![c] = "embed"]
    /\ UNCHANGED <<config, direct, probes, phase, created, embedding_service, constructed,
                   store, calls, op, history, query, idx, embeddings, doc_id,
                   res, log, added>>

\* one iteration of the loop of _generate_embeddings, with
\* _generate_single_embedding
GenerateEmbedding(c) ==
    /\ pc[c] = "embed"
    /\ LET source_col == mapping[idx[c]].source
           embedding_col == mapping[idx[c]].embedding
           source_text == source_values(history[c], source_col)
       IN IF SourceMissing(source_text)
          THEN /\ Finish(c, Bool(FALSE, "EmbeddingSourceMissing"))
               /\ UNCHANGED <<idx, embeddings, log>>
          ELSE \E resp \in Responses :
                 LET embedding == generate_embedding(enabled, source_text, resp)
                 IN /\ Logged(c, [EmbeddingEntry(embedding,
                                      SendsRequest(enabled, source_text))
                                   EXCEPT !.empty = EmptyEmbedding(resp)])
                    /\ IF ~embedding.some
                       THEN /\ Finish(c, Bool(FALSE, "EmbeddingUnavailable"))
                            /\ UNCHANGED <<idx, embeddings>>
                       ELSE /\ embeddings' = [embeddings EXCEPT ![c] =
                                 DictSet(embeddings[c], embedding_col,
                                         embedding.v)]
                            /\ idx' = [idx EXCEPT ![c] = idx[c] + 1]
                            /\ pc' = [pc EXCEPT ![c] =
                                        AfterEmbedding(idx[c], mapping)]
                            /\ UNCHANGED res
    /\ UNCHANGED <<config, direct, probes, phase, created, embedding_service, constructed,
                   store, calls, op, history, query, svc, doc_id, added>>

\* what insert_record can do: issue an id, return None, raise
InsertOutcomes == {"id", "null", "raise"}

\* the backend stores a row of the main collection under the id it issues
StoreMain(doc) ==
    /\ lastId' = lastId + 1
    /\ main' = main \cup {[id |-> lastId + 1, doc |-> doc]}

\* the backend stores a row of a companion table
StoreEmbedding(table_name, embedding_doc) ==
    /\ lastRow' = lastRow + 1
    /\ companion' = companion \cup
         {[table |-> table_name, id |-> lastRow + 1, doc |-> embedding_doc]}

\* the mariadb branch: doc_id = self.db.insert_record(self.index_name, doc);
\* if doc_id is None: return False
InsertMainRecord(c) ==
    /\ pc[c] = "insert_main"
    /\ backend = MARIADB
    /\ LET doc == BaseDoc(history[c])
       IN \E out \in InsertOutcomes :
            LET id == IF out = "id" THEN lastId + 1 ELSE 0
            IN /\ Logged(c, InsertEntry(MainCollection, out, doc))
               /\ IF out = "id" THEN StoreMain(doc)
                                ELSE UNCHANGED <<main, lastId>>
               /\ IF out = "raise"
                  THEN /\ Finish(c, Bool(FALSE, "StorageError"))
                       /\ UNCHANGED <<doc_id, idx, added>>
                  ELSE /\ doc_id' = [doc_id EXCEPT ![c] = id]
                       /\ idx' = [idx EXCEPT ![c] = 1]
                       /\ IF IsNone(id)
                          THEN /\ Finish(c, Bool(FALSE, "StorageError"))
                               /\ UNCHANGED added
                          ELSE IF Len(embeddings[c]) = 0
                          THEN FinishAdd(c, id)
                          ELSE /\ pc' = [pc EXCEPT ![c] = "insert_embedding"]
                               /\ UNCHANGED <<res, added>>
    /\ UNCHANGED <<config, direct, probes, phase, created, embedding_service, constructed,
                   companion, lastRow, calls, op, history, query, svc,
                   embeddings>>

\* the id kept where all calls share it: the id issued last
LastIssuedId(c) == lastId

\* "record_id": doc_id, the local variable of the call
RecordId(c) == doc_id[c]

\* the loop over embeddings.items() with a compensating delete of the main
\* record when a companion insert raises
InsertEmbeddingRecordRollback(c) ==
    /\ pc[c] = "insert_embedding"
    /\ LET embedding_col == embeddings[c][idx[c]].col
           embedding == embeddings[c][idx[c]].vec
           table_name == get_embedding_table_name(INDEX_NAME, embedding_col)
           embedding_doc == [record_id |-> doc_id[c], embedding |-> embedding]
       IN \E out \in InsertOutcomes :
            /\ Logged(c, Entry("insert_record", table_name, out))
            /\ IF out = "id" THEN StoreEmbedding(table_name, embedding_doc)
                             ELSE UNCHANGED <<companion, lastRow>>
            /\ IF out = "raise"
               THEN /\ Finish(c, Bool(FALSE, "StorageError"))
                    /\ main' = { r \in main : r.id # doc_id[c] }
                    /\ UNCHANGED <<idx, added>>
               ELSE /\ idx' = [idx EXCEPT ![c] = idx[c] + 1]
                    /\ UNCHANGED main
                    /\ IF idx[c] = Len(embeddings[c])
                       THEN FinishAdd(c, doc_id[c])
                       ELSE UNCHANGED <<pc, res, added>>
    /\ UNCHANGED <<config, direct, probes, phase, created, embedding_service, constructed,
                   lastId, calls, op, history, query, svc, embeddings,
                   doc_id>>

\* one iteration of the loop over embeddings.items():
\* self.db.insert_record(table_name, embedding_doc), result not looked at;
\* after the last one, return doc_id is not None
InsertEmbeddingRecord(c) ==
    /\ pc[c] = "insert_embedding"
    /\ LET embedding_col == embeddings[c][idx[c]].col
           embedding == embeddings[c][idx[c]].vec
           table_name == get_embedding_table_name(INDEX_NAME, embedding_col)
           embedding_doc == [record_id |-> RecordId(c), embedding |-> embedding]
       IN \E out \in InsertOutcomes :
            /\ Logged(c, Entry("insert_record", table_name, out))
            /\ IF out = "id" THEN StoreEmbedding(table_name, embedding_doc)
                             ELSE UNCHANGED <<companion, lastRow>>
            /\ IF out = "raise"
               THEN /\ Finish(c, Bool(FALSE, "StorageError"))
                    /\ UNCHANGED <<idx, added>>
               ELSE /\ idx' = [idx EXCEPT ![c] = idx[c] + 1]
                    /\ IF idx[c] = Len(embeddings[c])
                       THEN FinishAdd(c, doc_id[c])
                       ELSE UNCHANGED <<pc, res, added>>
    /\ UNCHANGED <<config, direct, probes, phase, created, embedding_service, constructed,
                   main, lastId, calls, op, history, query, svc, embeddings,
                   doc_id>>

\* the other branch: doc.update(embeddings);
\* doc_id = self.db.insert_record(self.index_name, doc);
\* return doc_id is not None
InsertDocument(c) ==
    /\ pc[c] = "insert_main"
    /\ backend # MARIADB
    /\ LET doc == Update(BaseDoc(history[c]), embeddings[c])
       IN \E out \in InsertOutcomes :
            LET id == IF out = "id" THEN lastId + 1 ELSE 0
            IN /\ Logged(c, InsertEntry(MainCollection, out, doc))
               /\ IF out = "id" THEN StoreMain(doc)
                                ELSE UNCHANGED <<main, lastId>>
               /\ IF out = "raise"
                  THEN /\ Finish(c, Bool(FALSE, "StorageError"))
                       /\ UNCHANGED <<doc_id, added>>
                  ELSE /\ doc_id' = [doc_id EXCEPT ![c] = id]
                       /\ FinishAdd(c, id)
    /\ UNCHANGED <<config, direct, probes, phase, created, embedding_service, constructed,
                   companion, lastRow, calls, op, history, query, idx, svc,
                   embeddings>>

(***************************************************************************)
(* The backend's search_records                                            *)
(***************************************************************************)
Min(a, b) == IF a < b THEN a ELSE b
Max(a, b) == IF a > b THEN a ELSE b

Hit(row, score) ==
    [id |-> row.id, source |-> row.doc, score |-> score, has_source |-> TRUE]

\* hits of which the last one carries no '_source'
WithoutSource(hits) == [hits EXCEPT ![Len(hits)].has_source = FALSE]

\* hit['_source'] raises KeyError for a hit without '_source'
Formattable(hits) == \A k \in 1..Len(hits) : hits[k].has_source

\* relevance of a stored document for the should clauses: question with
\* boost 2, user_equation with boost 1
Score(doc, question) ==
    (IF doc.question = question THEN 2 ELSE 0)
    + (IF doc.user_equation = question THEN 1 ELSE 0)

NewerFirst(x, y) == x.source.timestamp.iso > y.source.timestamp.iso
BestFirst(x, y) ==
    \/ x.score > y.score
    \/ x.score = y.score /\ NewerFirst(x, y)

\* the sort argument: sort names its first key
Before(x, y, sort) ==
    IF sort = "_score" THEN BestFirst(x, y) ELSE NewerFirst(x, y)

\* the orderings of the hits that respect the sort keys
Ordered(hits, sort) ==
    { s \in [1..Cardinality(hits) -> hits] :
        /\ \A i, j \in 1..Cardinality(hits) : i # j => s[i] # s[j]
        /\ \A i, j \in 1..Cardinality(hits) :
             i < j => ~Before(s[j], s[i], sort) }

FirstN(s, n) == SubSeq(s, 1, Min(n, Len(s)))

\* search_records for the query of get_user_history
UserHits(username) ==
    { Hit(row, 1) : row \in { r \in main : r.doc.username = username } }

\* search_records for the query of search_relevant_history; category ""
\* stands for None
RelevantHits(username, question, category) ==
    { Hit(row, Score(row.doc, question)) :
        row \in { r \in main :
                    /\ r.doc.username = username
                    /\ Truthy(category) => r.doc.category = category } }

(***************************************************************************)
(* search_relevant_history                                                 *)
(***************************************************************************)
Query(u, q, cat, n) == [username |-> u, question |-> q, category |-> cat, n |-> n]

SearchQueries ==
    { Query("alice", Q1, "", 0), Query("alice", E1, "addition", 1000),
      Query("bob", Q2, "subtraction", -3), Query("alice", Q1, "", 5) }

CallSearchRelevantHistory(c) ==
    \E q \in SearchQueries :
        Start(c, "search_relevant_history", "search_probe", NoHistory, q)

\* if not self.db.is_connected(): return []
SearchProbe(c) ==
    /\ pc[c] = "search_probe"
    /\ \E up \in BOOLEAN :
         /\ Logged(c, ProbeEntry(up))
         /\ probes' = Append(probes, up)
         /\ IF Disconnected(up)
            THEN Finish(c, List(<<>>))
            ELSE /\ pc' = [pc EXCEPT ![c] = "search_records"]
                 /\ UNCHANGED res
    /\ UNCHANGED <<config, direct, phase, created, embedding_service, constructed,
                   store, calls, locals, added>>

\* the call ends with an exception passed on to its caller
Raised == [kind |-> "raise", ok |-> FALSE, reason |-> "Exception",
           list |-> <<>>]

\* an except clause that passes the exception on
OnExceptionRaise == Raised

\* except Exception as e: print(...); return []
OnException == List(<<>>)

\* top_k without the clamp
UnclampedTopK(top_k) == top_k

\* top_k = max(1, min(top_k, 20))
ClampTopK(top_k) == Max(1, Min(top_k, 20))

\* _format_search_results
FormatHit(hit) ==
    [question |-> hit.source.question,
     user_equation |-> hit.source.user_equation,
     user_answer |-> hit.source.user_answer,
     correct_answer |-> hit.source.correct_answer,
     is_correct |-> hit.source.is_correct,
     category |-> hit.source.category,
     timestamp |-> hit.source.timestamp,
     score |-> hit.score]
format_search_results(hits) == [k \in 1..Len(hits) |-> FormatHit(hits[k])]

\* the try block of search_relevant_history
SearchRecords(c) ==
    /\ pc[c] = "search_records"
    /\ LET top_k == ClampTopK(query[c].n)
       IN \/ \E hits \in Ordered(RelevantHits(query[c].username,
                                              query[c].question,
                                              query[c].category), "_score"),
                 bad \in BOOLEAN :
               LET found == FirstN(hits, top_k)
                   returned == IF bad THEN WithoutSource(found) ELSE found
               IN /\ bad => Len(found) > 0
                  /\ Logged(c, SearchEntry(IF bad THEN "bad_hit" ELSE "hits",
                                           top_k))
                  /\ Finish(c, IF Formattable(returned)
                               THEN List(format_search_results(returned))
                               ELSE OnException)
          \/ /\ Logged(c, SearchEntry("raise", top_k))
             /\ Finish(c, OnException)
    /\ UNCHANGED <<config, direct, probes, phase, created, embedding_service, constructed,
                   store, calls, locals, added>>

(***************************************************************************)
(* get_user_history                                                        *)
(***************************************************************************)
GetQueries ==
    { Query("alice", "", "", 1), Query("alice", "", "", 100),
      Query("bob", "", "", 0), Query("bob", "", "", 1001) }

CallGetUserHistory(c) ==
    \E q \in GetQueries :
        Start(c, "get_user_history", "get_probe", NoHistory, q)

\* if not self.db.is_connected(): return []
GetProbe(c) ==
    /\ pc[c] = "get_probe"
    /\ \E up \in BOOLEAN :
         /\ Logged(c, ProbeEntry(up))
         /\ probes' = Append(probes, up)
         /\ IF Disconnected(up)
            THEN Finish(c, List(<<>>))
            ELSE /\ pc' = [pc EXCEPT ![c] = "get_records"]
                 /\ UNCHANGED res
    /\ UNCHANGED <<config, direct, phase, created, embedding_service, constructed,
                   store, calls, locals, added>>

\* limit = max(1, min(limit, 1000))
ClampLimit(limit) == Max(1, Min(limit, 1000))

\* results.append(source) for every hit
Sources(hits) == [k \in 1..Len(hits) |-> hits[k].source]

\* the try block of get_user_history
GetRecords(c) ==
    /\ pc[c] = "get_records"
    /\ LET limit == ClampLimit(query[c].n)
       IN \/ \E hits \in Ordered(UserHits(query[c].username), "timestamp"),
                 bad \in BOOLEAN :
               LET found == FirstN(hits, limit)
                   returned == IF bad THEN WithoutSource(found) ELSE found
               IN /\ bad => Len(found) > 0
                  /\ Logged(c, SearchEntry(IF bad THEN "bad_hit" ELSE "hits",
                                           limit))
                  /\ Finish(c, IF Formattable(returned)
                               THEN List(Sources(returned))
                               ELSE OnException)
          \/ /\ Logged(c, SearchEntry("raise", limit))
             /\ Finish(c, OnException)
    /\ UNCHANGED <<config, direct, probes, phase, created, embedding_service, constructed,
                   store, calls, locals, added>>

(***************************************************************************)
(* Specification                                                           *)
(***************************************************************************)
\* the steps of add_history
AddHistory(c) ==
    \/ CallAddHistory(c)
    \/ AddProbe(c)
    \/ GetEmbeddingServiceCheck(c)
    \/ GetEmbeddingServiceNew(c)
    \/ GetEmbeddingServiceReturn(c)
    \/ GenerateEmbedding(c)
    \/ InsertMainRecord(c)
    \/ InsertEmbeddingRecord(c)
    \/ InsertDocument(c)

\* the steps of search_relevant_history
SearchRelevantHistory(c) ==
    \/ CallSearchRelevantHistory(c)
    \/ SearchProbe(c)
    \/ SearchRecords(c)

\* the steps of get_user_history
GetUserHistory(c) ==
    \/ CallGetUserHistory(c)
    \/ GetProbe(c)
    \/ GetRecords(c)

\* one thread uses the service: construction, then calls one after another
Next ==
    \/ CreateMainCollection
    \/ CreateEmbeddingTable
    \/ AddHistory("t1")
    \/ SearchRelevantHistory("t1")
    \/ GetUserHistory("t1")

Spec == Init /\ [][Next]_vars

\* two threads call add_history on the same instance concurrently
NextConcurrent ==
    \/ CreateMainCollection
    \/ CreateEmbeddingTable
    \/ \E c \in Callers : AddHistory(c)

\* the configuration the concurrent calls are explored in: the embedding
\* service enabled and the default mapping, on either backend
InitConcurrent ==
    /\ Init
    /\ enabled
    /\ mapping = DefaultMapping

SpecConcurrent == InitConcurrent /\ [][NextConcurrent]_vars

(***************************************************************************)
(* Calls made on an EmbeddingService directly                              *)
(***************************************************************************)
\* the length of the first embedding the endpoint's response carries
Sent(resp) ==
    IF resp.kind = "http" /\ resp.hasData /\ Len(resp.data) > 0
       /\ resp.data[1].hasEmbedding
    THEN Len(resp.data[1].embedding) ELSE 0

\* what is kept of a call once the next one is made: the length of the
\* vector it returned or reported, 0 if none
Summary(call) ==
    [fn |-> call.fn, texts |-> call.texts, some |-> call.some,
     length |-> IF call.fn = "get_embedding_dimension" THEN call.dim
                ELSE Len(call.out),
     sent |-> Sent(call.resp)]

\* a call on the service and its result
Made(call) ==
    /\ calls < MaxCalls
    /\ calls' = calls + 1
    /\ client' = call
    /\ earlier' = IF client = NoCall THEN earlier
                  ELSE earlier \cup {Summary(client)}
    /\ UNCHANGED <<config, probes, phase, created, embedding_service,
                   constructed, store, pc, locals, res, log, added>>

ClientGenerateEmbedding ==
    \E text \in ClientTexts, resp \in ClientResponses :
        LET embedding == generate_embedding(enabled, text, resp)
        IN Made([fn |-> "generate_embedding", texts |-> <<text>>,
                 resp |-> resp, some |-> embedding.some,
                 out |-> embedding.v, outs |-> <<>>, dim |-> 0,
                 request |-> SendsRequest(enabled, text)])

ClientGenerateEmbeddings ==
    \E texts \in Batches, resp \in ClientResponses :
        LET batch == generate_embeddings(enabled, texts, resp)
        IN Made([fn |-> "generate_embeddings", texts |-> texts,
                 resp |-> resp, some |-> batch.some,
                 out |-> <<>>, outs |-> batch.v, dim |-> 0,
                 request |-> SendsBatchRequest(enabled, texts)])

ClientGetEmbeddingDimension ==
    \E resp \in ClientResponses :
        LET dimension == get_embedding_dimension(enabled, resp)
        IN Made([fn |-> "get_embedding_dimension", texts |-> <<TEST>>,
                 resp |-> resp, some |-> dimension # 0,
                 out |-> <<>>, outs |-> <<>>, dim |-> dimension,
                 request |-> SendsRequest(enabled, TEST)])

ClientIsAvailable ==
    \E resp \in ClientResponses :
        Made([fn |-> "is_available", texts |-> <<TEST>>,
              resp |-> resp, some |-> is_available(enabled, resp),
              out |-> <<>>, outs |-> <<>>, dim |-> 0,
              request |-> SendsRequest(enabled, TEST)])

\* an EmbeddingService of its own, as the tests construct it
InitEmbedding ==
    /\ Init
    /\ backend = ELASTICSEARCH
    /\ mapping = DefaultMapping

NextEmbedding ==
    \/ ClientGenerateEmbedding
    \/ ClientGenerateEmbeddings
    \/ ClientGetEmbeddingDimension
    \/ ClientIsAvailable

SpecEmbedding == InitEmbedding /\ [][NextEmbedding]_vars

(***************************************************************************)
(* What a call has done so far, read off its log                           *)
(***************************************************************************)
Done(c) == pc[c] = "done"
AddDone(c) == Done(c) /\ op[c] = "add_history"
ProbedDown(c) == Len(log[c]) >= 1 /\ log[c][1] = ProbeEntry(FALSE)
ProbedUp(c) == Len(log[c]) >= 1 /\ log[c][1] = ProbeEntry(TRUE)
Inserts(c) == { k \in 1..Len(log[c]) : log[c][k].fn = "insert_record" }
MainInserts(c) == { k \in Inserts(c) : log[c][k].coll = MainCollection }
CompanionInserts(c) == Inserts(c) \ MainInserts(c)
Generated(c, out) ==
    { k \in 1..Len(log[c]) :
        log[c][k].fn = "generate_embedding" /\ log[c][k].out = out }
SourceColumns(m) == { m[i].source : i \in 1..Len(m) }
CompanionRows(col, id) ==
    { r \in companion :
        /\ r.table = get_embedding_table_name(INDEX_NAME, col)
        /\ r.doc.record_id = id }
Failed(c) == res[c].kind = "bool" /\ ~res[c].ok

(***************************************************************************)
(* C1                                                                      *)
(***************************************************************************)
\* C1: when the liveness probe reports disconnected at the start of a call,
\* add_history returns failure, search_relevant_history and get_user_history
\* return the empty list, and the call makes no backend call besides the
\* probe and no embedding-client call.
C1_DisconnectedFailsFast ==
    \A c \in Callers :
        ProbedDown(c) =>
            /\ Done(c)
            /\ Len(log[c]) = 1
            /\ op[c] = "add_history" => Failed(c)
            /\ op[c] \in {"search_relevant_history", "get_user_history"}
                  => res[c] = List(<<>>)

\* a get_user_history on a disconnected backend that holds a record of the
\* user
C1_Witness ==
    \E c \in Callers :
        /\ ProbedDown(c)
        /\ op[c] = "get_user_history"
        /\ \E r \in main : r.doc.username = query[c].username

(***************************************************************************)
(* C2                                                                      *)
(***************************************************************************)
\* C2: on the mariadb backend, after every add_history that returns success,
\* the companion table of every configured embedding column holds exactly one
\* row whose record_id is the id issued for the main record of that call.
C2_CompanionRowPerColumn ==
    \A c \in Callers :
        AddDone(c) /\ backend = MARIADB /\ res[c].ok =>
            \A col \in EmbeddingColumns(mapping) :
                Cardinality(CompanionRows(col, doc_id[c])) = 1

(***************************************************************************)
(* C3                                                                      *)
(***************************************************************************)
\* C3 as claimed: add_history of a record whose question is empty fails with
\* EmbeddingSourceMissing and makes no insert_record call, on either backend.
C3_EmptyQuestionRejected ==
    \A c \in Callers :
        AddDone(c) /\ ProbedUp(c) /\ history[c].question = "" =>
            /\ res[c] = Bool(FALSE, "EmbeddingSourceMissing")
            /\ Inserts(c) = {}

\* C3: when question is a configured source column, add_history of a record
\* whose question is empty makes no insert_record call and fails, on either
\* backend, and no stored row has an empty question; on a connected backend
\* the failure is EmbeddingSourceMissing or EmbeddingUnavailable, and it is
\* EmbeddingSourceMissing when question is the first configured column and
\* the embedding client handle was obtained.
C3_EmptyQuestionRejectedWhenConfigured ==
    "question" \in SourceColumns(mapping) =>
        /\ \A r \in main : r.doc.question # ""
        /\ \A c \in Callers :
             op[c] = "add_history" /\ history[c].question = "" =>
                /\ Inserts(c) = {}
                /\ Done(c) => Failed(c)
                /\ Done(c) /\ ProbedUp(c) =>
                      res[c].reason \in {"EmbeddingSourceMissing",
                                         "EmbeddingUnavailable"}
                /\ Done(c) /\ svc[c] # 0 /\ mapping[1].source = "question"
                      => res[c].reason = "EmbeddingSourceMissing"

\* an add of an empty question that got its embedding client and was
\* rejected for the missing source
C3_Witness ==
    \E c \in Callers :
        /\ AddDone(c)
        /\ history[c].question = ""
        /\ svc[c] # 0
        /\ mapping[1].source = "question"
        /\ res[c] = Bool(FALSE, "EmbeddingSourceMissing")

(***************************************************************************)
(* C4                                                                      *)
(***************************************************************************)
\* C4: in add_history the embedding of every configured column is generated
\* before the first insert_record call; when the embedding client reports
\* unavailable for any column, also a later one, add_history fails with zero
\* inserts, and a connectivity or embedding failure leaves no main record.
C4_EmbeddingsBeforeInserts ==
    \A c \in Callers :
        op[c] = "add_history" =>
            /\ \A k \in Inserts(c) :
                 /\ { embeddings[c][j].col : j \in 1..Len(embeddings[c]) }
                       = EmbeddingColumns(mapping)
                 /\ Cardinality({ j \in Generated(c, "vector") : j < k })
                       = Len(mapping)
            /\ Generated(c, "none") # {} =>
                 Done(c) /\ Failed(c) /\ Inserts(c) = {} /\ doc_id[c] = 0
            /\ Done(c) /\ res[c].reason \in {"NotConnected",
                    "EmbeddingUnavailable", "EmbeddingSourceMissing"} =>
                 Failed(c) /\ Inserts(c) = {} /\ doc_id[c] = 0

\* the client gave a vector for the first column and reported unavailable
\* for the second
C4_Witness ==
    \E c \in Callers :
        /\ AddDone(c)
        /\ Len(mapping) = 2
        /\ Generated(c, "vector") # {}
        /\ Generated(c, "none") # {}
        /\ Inserts(c) = {}

(***************************************************************************)
(* C5                                                                      *)
(***************************************************************************)
\* C5 as claimed: with the embedding client disabled by configuration, every
\* add_history on a connected backend returns failure EmbeddingUnavailable,
\* whatever the record, and nothing is persisted.
C5_DisabledAlwaysUnavailable ==
    \A c \in Callers :
        AddDone(c) /\ ~enabled /\ ProbedUp(c) =>
            /\ res[c] = Bool(FALSE, "EmbeddingUnavailable")
            /\ Inserts(c) = {}

\* C5: with the embedding client disabled by configuration, every
\* add_history on a connected backend fails and nothing is persisted; the
\* failure is EmbeddingUnavailable when the source text of the first
\* configured column is not empty, and EmbeddingSourceMissing or
\* EmbeddingUnavailable otherwise.
C5_DisabledAlwaysFails ==
    ~enabled =>
        /\ main = {} /\ companion = {}
        /\ \A c \in Callers :
             op[c] = "add_history" =>
                /\ Inserts(c) = {}
                /\ Done(c) /\ ProbedUp(c) =>
                     /\ Failed(c)
                     /\ res[c].reason \in {"EmbeddingSourceMissing",
                                           "EmbeddingUnavailable"}
                     /\ Truthy(source_values(history[c], mapping[1].source))
                           => res[c].reason = "EmbeddingUnavailable"

\* a record with every source text present, refused because the client is
\* disabled
C5_Witness ==
    \E c \in Callers :
        /\ AddDone(c)
        /\ ~enabled
        /\ ProbedUp(c)
        /\ svc[c] # 0
        /\ history[c].question # "" /\ history[c].user_equation # ""
        /\ res[c] = Bool(FALSE, "EmbeddingUnavailable")

(***************************************************************************)
(* C6                                                                      *)
(***************************************************************************)
\* C6: on the mariadb backend, when a companion-row insert fails after the
\* main record was inserted, add_history reports a PartialWrite warning: the
\* result is not a hard failure and it differs from the result of a fully
\* successful add.
C6_PartialWriteReported ==
    \A c \in Callers :
        /\ AddDone(c)
        /\ backend = MARIADB
        /\ doc_id[c] # 0
        /\ \E k \in CompanionInserts(c) : log[c][k].out # "id"
        => res[c].ok /\ res[c] # Bool(TRUE, "")

(***************************************************************************)
(* C7                                                                      *)
(***************************************************************************)
\* C7: on the mariadb backend, once the main-record insert of an add_history
\* call has succeeded, the main record stays persisted and unmodified through
\* every later step of the call, whether a companion insert returns None or
\* raises.
C7_MainRecordKept ==
    \A c \in Callers :
        op[c] = "add_history" /\ backend = MARIADB /\ doc_id[c] # 0 =>
            [id |-> doc_id[c], doc |-> BaseDoc(history[c])] \in main

\* an add whose main insert succeeded and whose companion insert raised
C7_Witness ==
    \E c \in Callers :
        /\ AddDone(c)
        /\ backend = MARIADB
        /\ doc_id[c] # 0
        /\ \E k \in CompanionInserts(c) : log[c][k].out = "raise"
        /\ Failed(c)
        /\ \E r \in main : r.id = doc_id[c]

(***************************************************************************)
(* C8                                                                      *)
(***************************************************************************)
\* C8: on the mariadb backend add_history inserts the main document first,
\* without any embedding field; when that insert fails (no id issued)
\* add_history returns failure and makes no companion-table insert.
C8_MainInsertFirst ==
    \A c \in Callers :
        op[c] = "add_history" /\ backend = MARIADB =>
            /\ Cardinality(MainInserts(c)) <= 1
            /\ \A k \in MainInserts(c) : log[c][k].cols = {}
            /\ \A r \in main : r.doc.embeddings = {}
            /\ \A k \in CompanionInserts(c) :
                 \E j \in MainInserts(c) : j < k /\ log[c][j].out = "id"
            /\ \A k \in MainInserts(c) :
                 log[c][k].out # "id" =>
                    Done(c) /\ Failed(c) /\ CompanionInserts(c) = {}

\* an add whose main insert returned None
C8_Witness ==
    \E c \in Callers :
        /\ AddDone(c)
        /\ backend = MARIADB
        /\ \E k \in MainInserts(c) : log[c][k].out = "null"
        /\ Failed(c)

(***************************************************************************)
(* C9                                                                      *)
(***************************************************************************)
\* C9: on the document-store backend an add_history call that reaches the
\* write step makes exactly one insert_record, into the main collection,
\* whose document carries every configured embedding column together with
\* the record fields; add_history succeeds if and only if that insert
\* succeeds.
C9_SingleInsertDocument ==
    \A c \in Callers :
        AddDone(c) /\ backend = ELASTICSEARCH /\ Inserts(c) # {} =>
            /\ Cardinality(Inserts(c)) = 1
            /\ \A k \in Inserts(c) :
                 /\ log[c][k].coll = MainCollection
                 /\ log[c][k].cols = EmbeddingColumns(mapping)
                 /\ res[c].ok <=> log[c][k].out = "id"
                 /\ log[c][k].out = "id" =>
                      \E r \in main :
                         /\ r.id = doc_id[c]
                         /\ { e.col : e \in r.doc.embeddings }
                               = EmbeddingColumns(mapping)
                         /\ [r.doc EXCEPT !.embeddings = {}]
                               = BaseDoc(history[c])

\* a successful add of two embedding columns on the document store
C9_Witness ==
    \E c \in Callers :
        /\ AddDone(c)
        /\ backend = ELASTICSEARCH
        /\ Len(mapping) = 2
        /\ res[c].ok
        /\ Cardinality(Inserts(c)) = 1

(***************************************************************************)
(* C10                                                                     *)
(***************************************************************************)
\* get_user_history got its hits from the backend
GotHits(c) ==
    /\ Done(c)
    /\ op[c] = "get_user_history"
    /\ Len(log[c]) = 2
    /\ log[c][2].out = "hits"

\* the stored record reproduces these fields of the input
SameFields(doc, h) ==
    /\ doc.username = h.username
    /\ doc.question = h.question
    /\ doc.user_equation = h.user_equation
    /\ doc.user_answer = h.user_answer
    /\ doc.correct_answer = h.correct_answer
    /\ doc.is_correct = h.is_correct
    /\ doc.category = h.category
    /\ doc.timestamp = isoformat(h.timestamp)

\* C10 as claimed: on the document store, for every record added
\* successfully, a following get_user_history for its username returns a
\* stored record that reproduces every field of the input, reviewed
\* included, with equation equal to user_equation.
C10_RoundTrip ==
    \A c \in Callers :
        GotHits(c) /\ backend = ELASTICSEARCH =>
            \A a \in added :
                a.history.username = query[c].username =>
                    \E k \in 1..Len(res[c].list) :
                        /\ SameFields(res[c].list[k], a.history)
                        /\ res[c].list[k].reviewed = a.history.reviewed
                        /\ res[c].list[k].equation = a.history.user_equation

\* C10: on the document store, for every record added successfully, a
\* following get_user_history for its username that gets its hits from the
\* backend, with a clamped limit not below the number of stored records of
\* that user, returns a stored record that reproduces username, question,
\* user_equation, user_answer, correct_answer, is_correct, category and the
\* timestamp as ISO text, has equation equal to user_equation, and has
\* reviewed false whatever the input's reviewed was.
C10_RoundTripExceptReviewed ==
    \A c \in Callers :
        /\ GotHits(c)
        /\ backend = ELASTICSEARCH
        /\ ClampLimit(query[c].n) >= Cardinality(UserHits(query[c].username))
        => \A a \in added :
               a.history.username = query[c].username =>
                   \E k \in 1..Len(res[c].list) :
                       /\ SameFields(res[c].list[k], a.history)
                       /\ res[c].list[k].reviewed = FALSE
                       /\ res[c].list[k].equation = a.history.user_equation

\* a record added with reviewed true and then read back
C10_Witness ==
    \E c \in Callers :
        /\ GotHits(c)
        /\ backend = ELASTICSEARCH
        /\ Len(res[c].list) > 0
        /\ \E a \in added :
              /\ a.history.username = query[c].username
              /\ a.history.reviewed

(***************************************************************************)
(* C11                                                                     *)
(***************************************************************************)
Retrievals == {"search_relevant_history", "get_user_history"}

\* the search_records calls of a call
Searches(c) == { k \in 1..Len(log[c]) : log[c][k].fn = "search_records" }

\* C11: search_relevant_history and get_user_history never raise to the
\* caller: they return a list, and when the backend is connected but
\* search_records raises, or returns a hit that cannot be formatted, the
\* list they return is empty.
C11_RetrievalNeverRaises ==
    \A c \in Callers :
        Done(c) /\ op[c] \in Retrievals =>
            /\ res[c].kind = "list"
            /\ \A k \in Searches(c) :
                  log[c][k].out \in {"raise", "bad_hit"} => res[c].list = <<>>

\* search_relevant_history got from a connected backend a hit that has no
\* '_source'
C11_Witness ==
    \E c \in Callers :
        /\ Done(c)
        /\ ProbedUp(c)
        /\ op[c] = "search_relevant_history"
        /\ \E k \in Searches(c) : log[c][k].out = "bad_hit"

(***************************************************************************)
(* C12                                                                     *)
(***************************************************************************)
\* the limit a retrieval passes to search_records for the argument n, when
\* the range of its limit is 1..most
Clamped(n, most, limit) ==
    /\ limit \in 1..most
    /\ n <= 1 => limit = 1
    /\ n >= most => limit = most
    /\ n \in 1..most => limit = n

\* C12: the limit passed to the backend is clamped: search_relevant_history
\* passes top_k brought into 1..20 (0 and negative values become 1, values
\* above 20 become 20) and get_user_history passes limit brought into
\* 1..1000; search_records is never called with a limit outside these.
C12_LimitClamped ==
    \A c \in Callers :
        \A k \in Searches(c) :
            /\ op[c] = "search_relevant_history" =>
                  Clamped(query[c].n, 20, log[c][k].limit)
            /\ op[c] = "get_user_history" =>
                  Clamped(query[c].n, 1000, log[c][k].limit)

\* search_relevant_history was called with top_k = 1000 and asked the
\* backend for 20 hits
C12_Witness ==
    \E c \in Callers :
        /\ Done(c)
        /\ op[c] = "search_relevant_history"
        /\ query[c].n = 1000
        /\ \E k \in Searches(c) : log[c][k].limit = 20

(***************************************************************************)
(* C13                                                                     *)
(***************************************************************************)
\* C13: the embedding client handle is initialized at most once under
\* concurrent first use: whatever the interleaving of the calls that reach
\* _get_embedding_service while the handle is unset, one EmbeddingService
\* is constructed and all callers obtain that same instance.
C13_InitializedOnce ==
    /\ constructed <= 1
    /\ \A c1, c2 \in Callers :
          svc[c1] # 0 /\ svc[c2] # 0 => svc[c1] = svc[c2]

(***************************************************************************)
(* C14                                                                     *)
(***************************************************************************)
\* C14: generate_embeddings returns unavailable for an empty list of texts,
\* and whenever it returns a list for the texts xs, whatever the endpoint
\* answered, the list has len(xs) elements and each is a non-empty vector.
C14_NoPartialBatch ==
    client.fn = "generate_embeddings" =>
        /\ Len(client.texts) = 0 => ~client.some
        /\ client.some =>
              /\ Len(client.outs) = Len(client.texts)
              /\ \A k \in 1..Len(client.outs) : Len(client.outs[k]) > 0

(***************************************************************************)
(* C15                                                                     *)
(***************************************************************************)
\* C15: generate_embedding of the empty string and of a whitespace-only
\* string returns None whatever the endpoint would answer, and sends no
\* request.
C15_BlankTextUnavailable ==
    /\ client.fn = "generate_embedding"
    /\ client.texts[1] \in {"", BLANK}
    => ~client.some /\ ~client.request

\* an enabled service asked for the embedding of a whitespace-only string
\* while the endpoint would answer with a vector
C15_Witness ==
    /\ enabled
    /\ client.fn = "generate_embedding"
    /\ client.texts[1] = BLANK
    /\ client.resp = Http(200, TRUE, TRUE, <<Item(TRUE, Vec(EmbeddingDim))>>)

(***************************************************************************)
(* C16                                                                     *)
(***************************************************************************)
\* a 200 response with a body that parses and whose first data item
\* carries a non-empty embedding
GoodResponse(resp) ==
    /\ resp.kind = "http"
    /\ resp.status = 200
    /\ resp.parses
    /\ Sent(resp) > 0

\* C16: generate_embedding returns None when the service is disabled, on
\* a timeout, a connection failure, a non-200 response and a malformed
\* response (no or empty data, no or empty embedding, unparsable body); it
\* returns a vector only for a 200 response whose first data item carries
\* a non-empty embedding, and then that embedding.
C16_UnavailableOnFailure ==
    client.fn = "generate_embedding" =>
        /\ ~enabled => ~client.some
        /\ ~GoodResponse(client.resp) => ~client.some
        /\ client.some => client.out = client.resp.data[1].embedding

\* an enabled service got an error status with a vector in its body, and
\* another call got a vector from a 200 response
C16_Witness ==
    /\ enabled
    /\ client.fn = "generate_embedding"
    /\ client.texts[1] = Q1
    /\ client.resp.status = 500
    /\ Sent(client.resp) > 0
    /\ ~client.some
    /\ \E e \in earlier : e.fn = "generate_embedding" /\ e.some

(***************************************************************************)
(* C17                                                                     *)
(***************************************************************************)
\* two calls whose lengths the claim compares: both returned a value, each
\* is generate_embedding or get_embedding_dimension, and two
\* generate_embedding calls were given the same text
Comparable(x, y) ==
    /\ x.some /\ y.some
    /\ x.fn \in {"generate_embedding", "get_embedding_dimension"}
    /\ y.fn \in {"generate_embedding", "get_embedding_dimension"}
    /\ x.fn = "generate_embedding" /\ y.fn = "generate_embedding"
         => x.texts = y.texts

FailedFast(c) ==
    /\ Len(log[c]) = 1
    /\ IF op[c] = "add_history"
       THEN res[c] = Bool(FALSE, "NotConnected")
       ELSE res[c] = List(<<>>)

\* the call went on past the connectivity check: a retrieval asked the
\* backend for records, add_history went on to the embeddings and did not
\* fail for the connection
Proceeded(c) ==
    IF op[c] = "add_history"
    THEN /\ res[c].reason # "NotConnected"
         /\ Inserts(c) = {} =>
               res[c].reason \in {"EmbeddingUnavailable",
                                  "EmbeddingSourceMissing"}
    ELSE Searches(c) # {}

\* C19: the service keeps no connection state between calls: every call
\* of add_history, search_relevant_history and get_user_history runs the
\* probe first, and what it does depends on the answer to that probe only:
\* whatever the earlier calls were answered, a call answered connected
\* proceeds and a call answered disconnected fails fast or returns empty.
C19_ProbeEveryCall ==
    \A c \in Callers :
        Done(c) =>
            /\ Len(log[c]) >= 1
            /\ log[c][1].fn = "is_connected"
            /\ ProbedUp(c) => Proceeded(c)
            /\ ProbedDown(c) => FailedFast(c)

\* a call made while disconnected, then a call whose probe answered
\* connected and which stored a record
C19_Witness ==
    \E c \in Callers :
        /\ Done(c)
        /\ probes = <<FALSE, TRUE>>
        /\ ProbedUp(c)
        /\ op[c] = "add_history"
        /\ res[c].ok

(***************************************************************************)
(* C20                                                                     *)
(***************************************************************************)
\* the collections _create_index has to create
Required ==
    {MainCollection} \cup
    (IF backend = MARIADB
     THEN { get_embedding_table_name(INDEX_NAME, col) :
              col \in EmbeddingColumns(mapping) }
     ELSE {})

C21_AvailableIffProbeSucceeds ==
    client.fn = "is_available" =>
        /\ client.some <=> (enabled /\ GoodResponse(client.resp))
        /\ ~enabled => ~client.some /\ ~client.request

\* an enabled service whose probe got an error status with a vector in the
\* body
C21_Witness ==
    /\ client.fn = "is_available"
    /\ enabled
    /\ client.request
    /\ client.resp.status = 500
    /\ Sent(client.resp) > 0
    /\ ~client.some

(***************************************************************************)
(* C22                                                                     *)
(***************************************************************************)
\* the generate_embedding calls of a call that sent a request and were
\* answered with an empty embedding
AnsweredEmpty(c) ==
    { k \in 1..Len(log[c]) :
        /\ log[c][k].fn = "generate_embedding"
        /\ log[c][k].request
        /\ log[c][k].empty }

C23_CreationOrder ==
    /\ Len(created) >= 1 => created[1].coll = MainCollection
    /\ backend # MARIADB => Len(created) <= 1
    /\ backend = MARIADB =>
          /\ Len(created) <= 1 + Len(mapping)
          /\ \A k \in 2..Len(created) :
                created[k].coll =
                    get_embedding_table_name(INDEX_NAME,
                                             mapping[k - 1].embedding)
    /\ calls > 0 =>
          /\ phase = "ready"
          /\ Len(created) = IF backend = MARIADB THEN 1 + Len(mapping) ELSE 1

\* a call made on the mariadb backend with two embedding columns
C23_Witness ==
    /\ backend = MARIADB
    /\ Len(mapping) = 2
    /\ Len(created) = 3
    /\ \E c \in Callers : Done(c) /\ Inserts(c) # {}

(***************************************************************************)
(* C24                                                                     *)
(***************************************************************************)
\* the caller that makes an insert_record call in this step
Inserting(c) ==
    /\ Len(log'[c]) = Len(log[c]) + 1
    /\ log'[c][Len(log'[c])].fn = "insert_record"

\* a main record written in this step is written by a call that gets its
\* id, an id no record had before
MainRowIssued ==
    \A m \in main' \ main :
        /\ \A r \in main : r.id # m.id
        /\ \E c \in Callers :
              /\ Inserting(c)
              /\ pc[c] = "insert_main"
              /\ doc_id'[c] = m.id
              /\ \A d \in Callers \ {c} : doc_id'[d] = doc_id[d] /\ doc_id[d] # m.id

\* a companion row written in this step carries the id issued to the call
\* that writes it, the id of a main record written before
CompanionRowReferences ==
    \A r \in companion' \ companion :
        \E c \in Callers :
            /\ Inserting(c)
            /\ pc[c] = "insert_embedding"
            /\ r.doc.record_id = doc_id[c]
            /\ \E m \in main :
                  m.id = doc_id[c] /\ SameFields(m.doc, history[c])
            /\ \A d \in Callers \ {c} :
                  pc[d] # "idle" => doc_id[d] # doc_id[c]

\* C24: on the mariadb backend, for any interleaving of concurrent
\* add_history calls, every companion row is written with the id of a main
\* record inserted before, the id issued to the add_history call that
\* writes the row; none is written before its main record or with the id
\* of another call.
C24_CompanionReferencesOwnMain ==
    [][MainRowIssued /\ CompanionRowReferences]_vars

\* two calls are both between their main insert and their last companion
\* insert, and companion rows have been written
C24_Witness ==
    /\ backend = MARIADB
    /\ \A c \in Callers : pc[c] = "insert_embedding"
    /\ \E r1, r2 \in companion : r1.doc.record_id # r2.doc.record_id

(***************************************************************************)
(* C25                                                                     *)
(***************************************************************************)
\* the main records a call has written
MainWritten(c) == { k \in MainInserts(c) : log[c][k].out = "id" }

\* C25: a failure result of add_history means that the call persisted
\* nothing: on both backends, whenever add_history returns failure, no main
\* record was written by that call.
C25_FailurePersistsNothing ==
    \A c \in Callers :
        AddDone(c) /\ Failed(c) => MainWritten(c) = {}

(***************************************************************************)
(* C26                                                                     *)
(***************************************************************************)
\* the mapping has a source column that is neither question nor equation
OtherSourceColumn ==
    \E i \in 1..Len(mapping) : mapping[i].source \notin {"question", "equation"}

\* C26: when the mapping has a source column other than 'question' and
\* 'equation', every add_history call fails and performs no insert,
\* whatever the record holds; a call that comes to that column fails
\* because its source text is empty.
C26_OtherSourceColumnFails ==
    OtherSourceColumn =>
        /\ main = {} /\ companion = {}
        /\ \A c \in Callers :
              AddDone(c) =>
                  /\ Failed(c)
                  /\ Inserts(c) = {}
                  /\ Cardinality(Generated(c, "vector")) = Len(mapping) - 1
                        => res[c].reason = "EmbeddingSourceMissing"

\* a record with a category whose question was embedded, failing at the
\* column 'category'
C26_Witness ==
    \E c \in Callers :
        /\ AddDone(c)
        /\ OtherSourceColumn
        /\ history[c].category # ""
        /\ Generated(c, "vector") # {}
        /\ res[c].reason = "EmbeddingSourceMissing"

====
